---- MODULE Spec2Model ----
(***************************************************************************)
(* EcoLedger: incremental maintenance of per-user totals (profiles) and of *)
(* the leaderboard table as carbon_emissions rows are inserted, updated    *)
(* and deleted.                                                            *)
(*                                                                         *)
(* Amounts of CO2e are numeric(kg) in the database; here they are integers *)
(* in thousandths of a kg, so 0.411 kg is 411.  Points are integers.       *)
(***************************************************************************)
EXTENDS Integers, FiniteSets, Sequences, TLC

\* ------------------------------------------------------------------ bounds
Users == {"u1", "u2"}
\* accounts created before the profiles table and its sign-up trigger existed
LegacyUsers == {"u1"}
MaxRecords == 2
RecIds == 1..MaxRecords
Quantities == {1, 5}

\* ------------------------------------------------- activity category catalog
Car == "Transportation - Car"
Recycling == "Waste - Recycling"

\* emission_factor of the seeded categories, in thousandths of kg per unit
emission_factor ==
  [c \in {Car, "Transportation - Flight", "Energy - Electricity",
          "Energy - Natural Gas", "Food - Meat", "Food - Dairy", Recycling} |->
     CASE c = Car -> 411
       [] c = "Transportation - Flight" -> 255
       [] c = "Energy - Electricity" -> 920
       [] c = "Energy - Natural Gas" -> 5300
       [] c = "Food - Meat" -> 27000
       [] c = "Food - Dairy" -> 3200
       [] c = Recycling -> -850]

\* the categories the form offers are the rows of the catalog
categories == DOMAIN emission_factor

\* the categories an activity is logged with in this model
SelectedCategories == {Car, Recycling}

\* category.name.includes('Recycling')
NameIncludesRecycling(name) == name \in {Recycling}

\* Math.round(x / 1000 * 10) for x in thousandths: the nearest integer, a tie
\* going towards +infinity
RoundTimes10(x) == (x + 50) \div 100

\* Math.abs
Abs(x) == IF x < 0 THEN -x ELSE x

\* const carbonAmount = parseFloat(quantity) * category.emission_factor
carbonAmount(category, quantity) == quantity * emission_factor[category]

\* mutant: the rounded amount without Math.abs
greenPoints_NoAbs(category, quantity) ==
  IF NameIncludesRecycling(category)
    THEN RoundTimes10(carbonAmount(category, quantity))
    ELSE 0

\* const greenPoints = name.includes('Recycling') ? Math.abs(Math.round(carbonAmount * 10)) : 0
greenPoints(category, quantity) ==
  IF NameIncludesRecycling(category)
    THEN Abs(RoundTimes10(carbonAmount(category, quantity)))
    ELSE 0

\* ------------------------------------------------------------------- state
VARIABLES
  migrated,          \* migration 20251005 (constraints, triggers, backfill) has run
  auth_users,        \* rows of auth.users
  profiles,          \* user_id -> row of public.profiles
  carbon_emissions,  \* id -> row of public.carbon_emissions
  leaderboard,       \* rows of public.leaderboard
  next_id,           \* the id the next inserted carbon_emissions row gets (ids are fresh)
  last,              \* history: the operation that produced this state
  pending,           \* per user: the amounts of a submit whose insert is done, its RPC not yet
  twice,             \* history: users for whom a submit applied its delta twice
  hist,              \* history: per user, what kind of operations it has seen
  form,              \* ActivityLogger: the fields of the form and what its last handler displayed
  view,              \* Leaderboard: the entries a mounted component displays
  session            \* AuthProvider: per session handler, how far its ensureProfileExists is

\* the state of the browser
client == <<form, view, session>>

vars == <<migrated, auth_users, profiles, carbon_emissions, leaderboard, next_id, last,
          pending, twice, hist, form, view, session>>

\* ----------------------------------------------------------------- helpers
Put(f, k, v) == [x \in (DOMAIN f) \cup {k} |-> IF x = k THEN v ELSE f[x]]
Remove(f, k) == [x \in (DOMAIN f) \ {k} |-> f[x]]

RECURSIVE SumOver(_, _, _)
SumOver(f, S, field) ==
  IF S = {} THEN 0
  ELSE LET k == CHOOSE x \in S : TRUE
       IN (IF field = "carbon" THEN f[k].carbon_amount ELSE f[k].green_points_earned)
          + SumOver(f, S \ {k}, field)

RowsOf(emissions, u) == {i \in DOMAIN emissions : emissions[i].user_id = u}

\* SUM(carbon_amount), SUM(green_points_earned) of one user's rows
SumCarbon(emissions, u) == SumOver(emissions, RowsOf(emissions, u), "carbon")
SumPoints(emissions, u) == SumOver(emissions, RowsOf(emissions, u), "points")

LeaderboardRows(lb, u) == {r \in lb : r.user_id = u}

\* mutant: no floor
GREATEST0_Identity(x) == x

\* GREATEST(0, x)
GREATEST0(x) == IF x > 0 THEN x ELSE 0

\* the database as one value: what a statement reads and what it returns
DB == [migrated |-> migrated, auth_users |-> auth_users, profiles |-> profiles,
       carbon_emissions |-> carbon_emissions, leaderboard |-> leaderboard]

\* SQL NULL in a numeric column, as a number no amount of this model reaches
NULL == -999999999

\* (SELECT <column> FROM public.profiles WHERE profiles.user_id = user_id):
\* NULL when no row matches
SelectTotalCarbon(profs, user_id) ==
  IF user_id \in DOMAIN profs THEN profs[user_id].total_carbon_footprint ELSE NULL
SelectTotalPoints(profs, user_id) ==
  IF user_id \in DOMAIN profs THEN profs[user_id].total_green_points ELSE NULL

Failed(db) == [ok |-> FALSE, db |-> db]
Done(db) == [ok |-> TRUE, db |-> db]

\* ------------------------------------------------------- update_user_totals
\* mutant: the UPDATE without GREATEST(0, ...)
UpdateProfileTotals_NoFloor(profs, user_id, carbon_delta, points_delta) ==
  IF user_id \in DOMAIN profs
    THEN [profs EXCEPT
            ![user_id].total_carbon_footprint = @ + carbon_delta,
            ![user_id].total_green_points = @ + points_delta]
    ELSE profs

\* mutant: the UPDATE without its WHERE clause
UpdateProfileTotals_NoWhere(profs, user_id, carbon_delta, points_delta) ==
  [u \in DOMAIN profs |->
     [profs[u] EXCEPT
        !.total_carbon_footprint = GREATEST0(@ + carbon_delta),
        !.total_green_points = GREATEST0(@ + points_delta)]]

\* UPDATE public.profiles SET total_carbon_footprint = GREATEST(0, ... + carbon_delta),
\*   total_green_points = GREATEST(0, ... + points_delta) WHERE user_id = ...
\* (no row: the UPDATE changes nothing)
UpdateProfileTotals(profs, user_id, carbon_delta, points_delta) ==
  IF user_id \in DOMAIN profs
    THEN [profs EXCEPT
            ![user_id].total_carbon_footprint = GREATEST0(@ + carbon_delta),
            ![user_id].total_green_points = GREATEST0(@ + points_delta)]
    ELSE profs

\* mutant: a plain INSERT, without ON CONFLICT (user_id) DO UPDATE
UpsertLeaderboard_InsertOnly(lb, profs, user_id) ==
  lb \cup {[user_id |-> user_id,
            total_footprint |-> SelectTotalCarbon(profs, user_id),
            total_points |-> SelectTotalPoints(profs, user_id)]}

\* INSERT INTO public.leaderboard (user_id, total_footprint, total_points)
\*   VALUES (user_id, (SELECT total_carbon_footprint ...), (SELECT total_green_points ...))
\*   ON CONFLICT (user_id) DO UPDATE SET total_footprint = ..., total_points = ...
UpsertLeaderboard(lb, profs, user_id) ==
  (lb \ LeaderboardRows(lb, user_id))
    \cup {[user_id |-> user_id,
           total_footprint |-> SelectTotalCarbon(profs, user_id),
           total_points |-> SelectTotalPoints(profs, user_id)]}

\* mutant: the totals recomputed from the user's rows instead of adjusted
update_user_totals_Resum(db, user_id, carbon_delta, points_delta) ==
  IF ~db.migrated \/ user_id \notin db.auth_users
    THEN Failed(db)
    ELSE LET profs == IF user_id \notin DOMAIN db.profiles THEN db.profiles
                      ELSE [db.profiles EXCEPT
                              ![user_id].total_carbon_footprint =
                                 GREATEST0(SumCarbon(db.carbon_emissions, user_id)),
                              ![user_id].total_green_points =
                                 GREATEST0(SumPoints(db.carbon_emissions, user_id))]
         IN Done([db EXCEPT !.profiles = profs,
                            !.leaderboard = UpsertLeaderboard(db.leaderboard, profs, user_id)])

\* public.update_user_totals(user_id, carbon_delta, points_delta).
\* The call fails as a whole, changing nothing, when
\*   - leaderboard has no unique constraint on user_id yet (ON CONFLICT (user_id)
\*     names no constraint before migration 20251005), or
\*   - user_id is not in auth.users (leaderboard.user_id REFERENCES auth.users(id)).
\* A user without a profiles row does not make it fail: the UPDATE matches no
\* row and the leaderboard row is written with NULL totals.  The foreign key
\* to profiles(user_id) that migration 20251005 means to add is skipped,
\* because its guard looks for the name leaderboard_user_id_fkey, which the
\* REFERENCES auth.users(id) of CREATE TABLE leaderboard already carries.
update_user_totals(db, user_id, carbon_delta, points_delta) ==
  IF ~db.migrated \/ user_id \notin db.auth_users
    THEN Failed(db)
    ELSE LET profs == UpdateProfileTotals(db.profiles, user_id, carbon_delta, points_delta)
         IN Done([db EXCEPT !.profiles = profs,
                            !.leaderboard = UpsertLeaderboard(db.leaderboard, profs, user_id)])

\* ----------------------------------------------------------------- triggers
\* carbon_emissions_after_insert: new_row (NEW) is the inserted row
carbon_emissions_after_insert(db, new_row) ==
  update_user_totals(db, new_row.user_id, new_row.carbon_amount, new_row.green_points_earned)

\* mutant: the delta of an update taken as NEW alone
carbon_emissions_after_update_NewOnly(db, old_row, new_row) ==
  update_user_totals(db, new_row.user_id, new_row.carbon_amount, new_row.green_points_earned)

\* carbon_emissions_after_update: delta = NEW - OLD
carbon_emissions_after_update(db, old_row, new_row) ==
  update_user_totals(db, new_row.user_id,
                     new_row.carbon_amount - old_row.carbon_amount,
                     new_row.green_points_earned - old_row.green_points_earned)

\* carbon_emissions_after_delete: old_row (OLD) is the removed row
carbon_emissions_after_delete(db, old_row) ==
  update_user_totals(db, old_row.user_id, -old_row.carbon_amount, -old_row.green_points_earned)

\* --------------------------------------- statements on public.carbon_emissions
\* Before migration 20251005 no trigger is installed; after it each row
\* statement runs its AFTER trigger in the same transaction, so a failing
\* trigger aborts the statement.
InsertEmission(db, id, new_row) ==
  LET written == [db EXCEPT !.carbon_emissions = Put(db.carbon_emissions, id, new_row)]
  IN IF ~db.migrated THEN Done(written)
     ELSE LET r == carbon_emissions_after_insert(written, new_row)
          IN IF r.ok THEN r ELSE Failed(db)

UpdateEmission(db, id, new_row) ==
  LET old_row == db.carbon_emissions[id]
      written == [db EXCEPT !.carbon_emissions = Put(db.carbon_emissions, id, new_row)]
  IN IF ~db.migrated THEN Done(written)
     ELSE LET r == carbon_emissions_after_update(written, old_row, new_row)
          IN IF r.ok THEN r ELSE Failed(db)

DeleteEmission(db, id) ==
  LET old_row == db.carbon_emissions[id]
      written == [db EXCEPT !.carbon_emissions = Remove(db.carbon_emissions, id)]
  IN IF ~db.migrated THEN Done(written)
     ELSE LET r == carbon_emissions_after_delete(written, old_row)
          IN IF r.ok THEN r ELSE Failed(db)

\* the row handleSubmit inserts
NewEmission(u, category, quantity) ==
  [user_id |-> u, category |-> category, quantity |-> quantity,
   carbon_amount |-> carbonAmount(category, quantity),
   green_points_earned |-> greenPoints(category, quantity)]

\* mutant: a category that is not found counts as one without emissions
handleSubmit_insert_NoLookup(db, id, u, category, quantity) ==
  LET row == IF category \in categories THEN NewEmission(u, category, quantity)
             ELSE [user_id |-> u, category |-> category, quantity |-> quantity,
                   carbon_amount |-> 0, green_points_earned |-> 0]
      ins == InsertEmission(db, id, row)
  IN IF ins.ok THEN ins ELSE Failed(db)

\* ActivityLogger.handleSubmit, first request (all fields filled in):
\*   const category = categories.find(cat => cat.id === selectedCategory);
\*   if (!category) throw new Error('Category not found');
\*   ... insert(...); if (error) throw error;
\* a throw ends in the catch block (toast), nothing else runs
handleSubmit_insert(db, id, u, category, quantity) ==
  IF category \notin categories THEN Failed(db)
  ELSE LET ins == InsertEmission(db, id, NewEmission(u, category, quantity))
       IN IF ins.ok THEN ins ELSE Failed(db)

\* ActivityLogger.handleSubmit, second request: the update_user_totals RPC
\* with the amounts of the inserted row; its error is logged and ignored, and
\* onActivityLogged() runs either way
handleSubmit_rpc(db, u, carbon_delta, points_delta) ==
  LET rpc == update_user_totals(db, u, carbon_delta, points_delta)
  IN IF rpc.ok THEN rpc ELSE Done(db)

\* ActivityLogger.handleSubmit as a whole, nothing else running in between
handleSubmit(db, id, u, category, quantity) ==
  LET ins == handleSubmit_insert(db, id, u, category, quantity)
  IN IF ~ins.ok THEN Failed(db)
     ELSE handleSubmit_rpc(ins.db, u, carbonAmount(category, quantity),
                           greenPoints(category, quantity))

\* ----------------------------------------------------- profile creation
\* handle_new_user (AFTER INSERT ON auth.users): a profiles row with the
\* column defaults for the totals; no leaderboard row is written
handle_new_user(db, u) ==
  [db EXCEPT !.profiles =
     Put(db.profiles, u, [total_carbon_footprint |-> 0, total_green_points |-> 0,
                          show_on_leaderboard |-> TRUE])]

\* AuthProvider.ensureProfileExists: when the user has no profiles row, sum the
\* user's emissions (acc.carbon += ..., acc.points += ...) and insert a row
\* with those sums; otherwise change nothing
ensureProfileExists(db, u) ==
  IF u \in DOMAIN db.profiles THEN db
  ELSE [db EXCEPT !.profiles =
          Put(db.profiles, u,
              [total_carbon_footprint |-> SumCarbon(db.carbon_emissions, u),
               total_green_points |-> SumPoints(db.carbon_emissions, u),
               show_on_leaderboard |-> TRUE])]

\* ------------------------------------------------------ migration 20251005
EmissionUsers(db) == {db.carbon_emissions[i].user_id : i \in DOMAIN db.carbon_emissions}

\* INSERT INTO profiles ... SELECT e.user_id, 'User', true, SUM(...), SUM(...)
\*   FROM carbon_emissions e LEFT JOIN profiles p ... WHERE p.user_id IS NULL
BackfillInsertProfiles(db) ==
  [u \in (DOMAIN db.profiles) \cup EmissionUsers(db) |->
     IF u \in DOMAIN db.profiles THEN db.profiles[u]
     ELSE [total_carbon_footprint |-> SumCarbon(db.carbon_emissions, u),
           total_green_points |-> SumPoints(db.carbon_emissions, u),
           show_on_leaderboard |-> TRUE]]

\* UPDATE profiles p SET total_carbon_footprint = COALESCE(e.sum_carbon,0), ...
\*   FROM (SELECT user_id, SUM(...) ... GROUP BY user_id) e WHERE p.user_id = e.user_id
BackfillUpdateTotals(profs, emissions) ==
  [u \in DOMAIN profs |->
     IF RowsOf(emissions, u) # {}
       THEN [profs[u] EXCEPT !.total_carbon_footprint = SumCarbon(emissions, u),
                             !.total_green_points = SumPoints(emissions, u)]
       ELSE profs[u]]

\* INSERT INTO leaderboard ... SELECT ... FROM profiles p ON CONFLICT (user_id) DO UPDATE
BackfillLeaderboard(lb, profs) ==
  {r \in lb : r.user_id \notin DOMAIN profs}
    \cup {[user_id |-> u,
           total_footprint |-> profs[u].total_carbon_footprint,
           total_points |-> profs[u].total_green_points] : u \in DOMAIN profs}

\* the whole migration: constraints and triggers installed, then the backfill
migration_20251005(db) ==
  LET profs == BackfillUpdateTotals(BackfillInsertProfiles(db), db.carbon_emissions)
  IN [db EXCEPT !.migrated = TRUE,
                !.profiles = profs,
                !.leaderboard = BackfillLeaderboard(db.leaderboard, profs)]

\* --------------------------------------------- profile page, leaderboard page
\* Profile.updateProfile: UPDATE profiles SET display_name, show_on_leaderboard
\* WHERE user_id = the signed-in user (the totals are not in the SET list)
updateProfile(db, u, show) ==
  IF u \in DOMAIN db.profiles
    THEN [db EXCEPT !.profiles[u].show_on_leaderboard = show]
    ELSE db

\* the rows of profiles a SELECT by viewer returns under row level security:
\* "Users can view their own profile" (auth.uid() = user_id), and, once
\* migration 20251005 has run, "Public can view display names for
\* leaderboard profiles" (show_on_leaderboard = true); policies are OR-ed
VisibleProfiles(db, viewer) ==
  {u \in DOMAIN db.profiles :
     u = viewer \/ (db.migrated /\ db.profiles[u].show_on_leaderboard)}

\* .order('total_carbon_footprint', { ascending: true }), as an insertion
\* sort; the order of rows with equal totals is not specified by the query
RECURSIVE InsertByFootprint(_, _, _)
InsertByFootprint(profs, s, u) ==
  IF s = << >> THEN <<u>>
  ELSE IF profs[u].total_carbon_footprint <= profs[Head(s)].total_carbon_footprint
         THEN <<u>> \o s
         ELSE <<Head(s)>> \o InsertByFootprint(profs, Tail(s), u)

\* mutant: the rows in table order, no ORDER BY
RECURSIVE OrderByFootprint_Unordered(_, _)
OrderByFootprint_Unordered(profs, S) ==
  IF S = {} THEN << >>
  ELSE LET u == CHOOSE x \in S : TRUE
       IN <<u>> \o OrderByFootprint_Unordered(profs, S \ {u})

RECURSIVE OrderByFootprint(_, _)
OrderByFootprint(profs, S) ==
  IF S = {} THEN << >>
  ELSE LET u == CHOOSE x \in S : TRUE
       IN InsertByFootprint(profs, OrderByFootprint(profs, S \ {u}), u)

\* .limit(10)
LeaderboardLimit == 10
Limit(s, n) == IF Len(s) <= n THEN s ELSE SubSeq(s, 1, n)

\* mutant: the rank shown is the rank column of the leaderboard table, which
\* no statement ever writes
fetchLeaderboard_StoredRank(db, viewer) ==
  LET data == Limit(OrderByFootprint(db.profiles, VisibleProfiles(db, viewer)),
                    LeaderboardLimit)
  IN [index \in 1..Len(data) |->
        [user_id |-> data[index],
         total_footprint |-> db.profiles[data[index]].total_carbon_footprint,
         total_points |-> db.profiles[data[index]].total_green_points,
         rank |-> NULL]]

\* Leaderboard.fetchLeaderboard for a signed-in viewer: the visible profiles,
\* ordered, cut at ten, mapped to entries with rank = index + 1 (the totals
\* of a profiles row are never NULL here, so "|| 0" keeps them)
fetchLeaderboard(db, viewer) ==
  LET data == Limit(OrderByFootprint(db.profiles, VisibleProfiles(db, viewer)),
                    LeaderboardLimit)
  IN [index \in 1..Len(data) |->
        [user_id |-> data[index],
         total_footprint |-> db.profiles[data[index]].total_carbon_footprint,
         total_points |-> db.profiles[data[index]].total_green_points,
         rank |-> index]]

\* ------------------------------------------------------------- history
NoOp == [op |-> "init", caller |-> "-", user_id |-> "-", ok |-> TRUE, floored |-> FALSE]

\* an operation requested by caller on the data of user u
OpBy(name, caller, u, ok, floored) ==
  [op |-> name, caller |-> caller, user_id |-> u, ok |-> ok, floored |-> floored]

\* an operation a user requests on their own data
Op(name, u, ok, floored) == OpBy(name, u, u, ok, floored)

\* no submit of the user is between its two requests
NoPending == [carbon |-> 0, points |-> 0, open |-> FALSE]

\* the totals of u before an operation (0 when u has no profiles row)
BeforeCarbon(u) == IF u \in DOMAIN profiles THEN profiles[u].total_carbon_footprint ELSE 0
BeforePoints(u) == IF u \in DOMAIN profiles THEN profiles[u].total_green_points ELSE 0

\* did n successive applications of the delta d to the total t hit the floor?
RECURSIVE Floors(_, _, _)
Floors(t, d, n) ==
  IF n = 0 THEN FALSE
  ELSE t + d < 0 \/ Floors(IF t + d > 0 THEN t + d ELSE 0, d, n - 1)

NextHist(u, floored, insertOnly) ==
  [hist EXCEPT ![u] = IF floored THEN "clamped"
                      ELSE IF @ = "pure" /\ ~insertOnly THEN "mixed"
                      ELSE @]

Install(db) ==
  /\ migrated' = db.migrated
  /\ profiles' = db.profiles
  /\ carbon_emissions' = db.carbon_emissions
  /\ leaderboard' = db.leaderboard

\* useState('') for selectedCategory, quantity and description; no toast yet
NoForm == [selectedCategory |-> "", quantity |-> "", description |-> "", toast |-> "none"]

\* no Leaderboard component is mounted
NoView == [mounted |-> FALSE, viewer |-> "-", entries |-> << >>]

\* the two callers of handleSession in AuthProvider's useEffect
Handlers == {"onAuthStateChange", "getSession"}

\* no handler has been called
NoSession == [h \in Handlers |-> [pc |-> "idle", carbon |-> 0, points |-> 0]]

InitClient ==
  /\ form = NoForm
  /\ view = NoView
  /\ session = NoSession

\* ------------------------------------------------------------------ actions
Init ==
  /\ migrated = FALSE
  /\ auth_users = LegacyUsers
  /\ profiles = << >>
  /\ carbon_emissions = << >>
  /\ leaderboard = {}
  /\ next_id = 1
  /\ last = NoOp
  /\ pending = [u \in Users |-> NoPending]
  /\ twice = {}
  /\ hist = [u \in Users |-> "none"]
  /\ InitClient

\* a new account: on_auth_user_created fires handle_new_user
SignUp(u) ==
  /\ UNCHANGED client
  /\ u \notin auth_users
  /\ auth_users' = auth_users \cup {u}
  /\ Install(handle_new_user(DB, u))
  /\ last' = Op("signUp", u, TRUE, FALSE)
  /\ hist' = [hist EXCEPT ![u] = "pure"]
  /\ UNCHANGED <<next_id, pending, twice>>

\* handleSession -> ensureProfileExists for the signed-in user
EnsureProfileExists(u) ==
  /\ UNCHANGED client
  /\ u \in auth_users
  /\ u \notin DOMAIN profiles   \* with a row present the handler changes nothing
  /\ Install(ensureProfileExists(DB, u))
  /\ last' = Op("ensureProfileExists", u, TRUE, FALSE)
  /\ hist' = [hist EXCEPT ![u] = IF u \in DOMAIN profiles THEN @
                                 ELSE IF RowsOf(carbon_emissions, u) = {} THEN "pure"
                                 ELSE "mixed"]
  /\ UNCHANGED <<auth_users, next_id, pending, twice>>

\* the signed-in user submits the activity form
HandleSubmit(u, category, quantity) ==
  /\ UNCHANGED client
  /\ u \in auth_users
  /\ next_id \in RecIds
  /\ LET id == next_id
         r == handleSubmit(DB, id, u, category, quantity)
         c == carbonAmount(category, quantity)
         p == greenPoints(category, quantity)
         times == IF migrated /\ r.ok /\ u \in DOMAIN profiles THEN 2 ELSE 0
         floored == Floors(BeforeCarbon(u), c, times)
                      \/ Floors(BeforePoints(u), p, times)
     IN /\ Install(r.db)
        /\ last' = Op("handleSubmit", u, r.ok, floored)
        /\ hist' = IF ~r.ok THEN hist
                   ELSE IF ~migrated THEN NextHist(u, FALSE, FALSE)
                   ELSE NextHist(u, floored, TRUE)
        /\ next_id' = IF r.ok THEN next_id + 1 ELSE next_id
        /\ twice' = IF times = 2 THEN twice \cup {u} ELSE twice
  /\ UNCHANGED <<auth_users, pending>>

\* UPDATE public.carbon_emissions SET quantity, carbon_amount, green_points_earned
\* of one row (its owner and category stay)
UpdateRow(id, quantity) ==
  /\ UNCHANGED client
  /\ id \in DOMAIN carbon_emissions
  /\ LET old_row == carbon_emissions[id]
         u == old_row.user_id
         new_row == NewEmission(u, old_row.category, quantity)
         r == UpdateEmission(DB, id, new_row)
         times == IF migrated /\ r.ok /\ u \in DOMAIN profiles THEN 1 ELSE 0
         floored ==
           Floors(BeforeCarbon(u), new_row.carbon_amount - old_row.carbon_amount, times)
           \/ Floors(BeforePoints(u),
                     new_row.green_points_earned - old_row.green_points_earned, times)
     IN /\ new_row # old_row
        /\ Install(r.db)
        /\ last' = Op("update", u, r.ok, floored)
        /\ hist' = IF r.ok THEN NextHist(u, floored, FALSE) ELSE hist
  /\ UNCHANGED <<auth_users, next_id, pending, twice>>

\* DELETE FROM public.carbon_emissions of one row
DeleteRow(id) ==
  /\ UNCHANGED client
  /\ id \in DOMAIN carbon_emissions
  /\ LET old_row == carbon_emissions[id]
         u == old_row.user_id
         r == DeleteEmission(DB, id)
         times == IF migrated /\ r.ok /\ u \in DOMAIN profiles THEN 1 ELSE 0
         floored == Floors(BeforeCarbon(u), -old_row.carbon_amount, times)
                      \/ Floors(BeforePoints(u), -old_row.green_points_earned, times)
     IN /\ Install(r.db)
        /\ last' = Op("delete", u, r.ok, floored)
        /\ hist' = IF r.ok THEN NextHist(u, floored, FALSE) ELSE hist
  /\ UNCHANGED <<auth_users, next_id, pending, twice>>

\* migration 20251005 is applied, once
Migrate ==
  /\ UNCHANGED client
  /\ ~migrated
  /\ Install(migration_20251005(DB))
  /\ last' = Op("migrate", "-", TRUE, FALSE)
  /\ hist' = [u \in Users |-> IF RowsOf(carbon_emissions, u) # {} THEN "mixed" ELSE hist[u]]
  /\ UNCHANGED <<auth_users, next_id, pending, twice>>

Next ==
  \/ \E u \in Users : SignUp(u)
  \/ \E u \in Users : EnsureProfileExists(u)
  \/ \E u \in Users, category \in SelectedCategories, quantity \in Quantities :
       HandleSubmit(u, category, quantity)
  \/ \E id \in RecIds, quantity \in Quantities : UpdateRow(id, quantity)
  \/ \E id \in RecIds : DeleteRow(id)
  \/ Migrate

Spec == Init /\ [][Next]_vars

\* ------------------------------------------- the requests, one step each
\* The handlers above as the requests they send, on a database that had every
\* migration applied before the first account was created: handleSubmit is
\* two requests (the insert, then the RPC), between which other requests are
\* served.

\* a selectedCategory that matches no row of the catalog
UnknownCategory == "no such category"

\* the carbon_delta a client passes when it calls the RPC endpoint itself:
\* minus 10 kg
RpcCarbonDeltas == {-10000}

\* the quantities typed into the form when a submit is followed request by
\* request (an UPDATE can still set the other quantity)
SubmitQuantities == {1}

InitRequests ==
  /\ migrated = TRUE
  /\ auth_users = {}
  /\ profiles = << >>
  /\ carbon_emissions = << >>
  /\ leaderboard = {}
  /\ next_id = 1
  /\ last = NoOp
  /\ pending = [u \in Users |-> NoPending]
  /\ twice = {}
  /\ hist = [u \in Users |-> "none"]
  /\ InitClient

\* handleSubmit up to the answer of the insert request
SubmitInsert(u, category, quantity) ==
  /\ UNCHANGED client
  /\ u \in auth_users
  /\ ~pending[u].open
  /\ next_id \in RecIds
  /\ LET r == handleSubmit_insert(DB, next_id, u, category, quantity)
         c == IF r.ok THEN r.db.carbon_emissions[next_id].carbon_amount ELSE 0
         p == IF r.ok THEN r.db.carbon_emissions[next_id].green_points_earned ELSE 0
         floored == r.ok /\ u \in DOMAIN profiles
                      /\ (Floors(BeforeCarbon(u), c, 1) \/ Floors(BeforePoints(u), p, 1))
     IN /\ Install(r.db)
        /\ last' = Op("insert", u, r.ok, floored)
        /\ pending' = IF r.ok
                        THEN [pending EXCEPT ![u] = [carbon |-> c, points |-> p, open |-> TRUE]]
                        ELSE pending
        /\ hist' = IF r.ok THEN NextHist(u, floored, TRUE) ELSE hist
        /\ next_id' = IF r.ok THEN next_id + 1 ELSE next_id
  /\ UNCHANGED <<auth_users, twice>>

\* handleSubmit from the RPC request to onActivityLogged()
SubmitRpc(u) ==
  /\ UNCHANGED client
  /\ pending[u].open
  /\ LET c == pending[u].carbon
         p == pending[u].points
         applied == update_user_totals(DB, u, c, p).ok /\ u \in DOMAIN profiles
         r == handleSubmit_rpc(DB, u, c, p)
         floored == applied /\ (Floors(BeforeCarbon(u), c, 1) \/ Floors(BeforePoints(u), p, 1))
     IN /\ Install(r.db)
        /\ last' = Op("rpc", u, applied, floored)
        /\ hist' = IF applied THEN NextHist(u, floored, FALSE) ELSE hist
        /\ twice' = IF applied THEN twice \cup {u} ELSE twice
  /\ pending' = [pending EXCEPT ![u] = NoPending]
  /\ UNCHANGED <<auth_users, next_id>>

\* a signed-in user calls the update_user_totals endpoint with the user_id of
\* somebody else and an amount of their choice (the function is SECURITY
\* DEFINER and does not compare user_id with auth.uid())
CallUpdateUserTotals(caller, user_id, carbon_delta) ==
  /\ UNCHANGED client
  /\ caller \in auth_users
  /\ caller # user_id
  /\ LET r == update_user_totals(DB, user_id, carbon_delta, 0)
         floored == r.ok /\ user_id \in DOMAIN profiles
                      /\ Floors(BeforeCarbon(user_id), carbon_delta, 1)
     IN /\ Install(r.db)
        /\ last' = OpBy("call", caller, user_id, r.ok, floored)
        /\ hist' = IF r.ok THEN NextHist(user_id, floored, FALSE) ELSE hist
  /\ UNCHANGED <<auth_users, next_id, pending, twice>>

\* the signed-in user saves the profile form
UpdateProfile(u, show) ==
  /\ UNCHANGED client
  /\ u \in auth_users
  /\ u \in DOMAIN profiles
  /\ show # profiles[u].show_on_leaderboard
  /\ Install(updateProfile(DB, u, show))
  /\ last' = Op("updateProfile", u, TRUE, FALSE)
  /\ UNCHANGED <<auth_users, next_id, pending, twice, hist>>

NextRequests ==
  \/ \E u \in Users : SignUp(u)
  \/ \E u \in Users, category \in SelectedCategories \cup {UnknownCategory},
        quantity \in SubmitQuantities : SubmitInsert(u, category, quantity)
  \/ \E u \in Users : SubmitRpc(u)
  \/ \E id \in RecIds, quantity \in Quantities : UpdateRow(id, quantity)
  \/ \E id \in RecIds : DeleteRow(id)

SpecRequests == InitRequests /\ [][NextRequests]_vars

\* the profile page, the leaderboard page and the RPC endpoint, next to
\* submits that run undisturbed
NextPages ==
  \/ \E u \in Users : SignUp(u)
  \/ \E u \in Users, category \in SelectedCategories, quantity \in Quantities :
       HandleSubmit(u, category, quantity)
  \/ \E caller \in Users, user_id \in Users, carbon_delta \in RpcCarbonDeltas :
       CallUpdateUserTotals(caller, user_id, carbon_delta)
  \/ \E u \in Users, show \in BOOLEAN : UpdateProfile(u, show)

SpecPages == InitRequests /\ [][NextPages]_vars

\* ------------------------------------------------ the activity form, one browser
\* The ActivityLogger component of one signed-in user: its three fields, the
\* estimate button, the submit button, and a DELETE the user sends through
\* the API with their own token.

\* what the user types into the quantity field and into the description
QuantityTexts == {"5", "-5"}
Descriptions == {"bus to work"}

\* what the AI gateway answers: an HTTP status and, with 200, the content of
\* the message: text that is no JSON, or JSON with this carbon_amount (in
\* thousandths of kg; 0 also stands for JSON without a carbon_amount)
GatewayStatuses == {200, 429, 402, 503}
GatewayContents == {[json |-> FALSE, carbon_amount |-> 0],
                    [json |-> TRUE, carbon_amount |-> 0],
                    [json |-> TRUE, carbon_amount |-> 2055]}

\* parseFloat(quantity) for the texts of this model
ParseFloat(text) ==
  CASE text = "5" -> 5
    [] text = "-5" -> -5
    [] text = "5.00" -> 5

\* (carbon_amount / emission_factor).toFixed(2) for the amounts of this model
\* whose quotient has no more than two decimals
ToFixed2(carbon_amount, factor) ==
  CASE carbon_amount = 5 * factor -> "5.00"

\* the edge function calculate-carbon, from the answer of the gateway on:
\*   if (!response.ok) { 429 -> 429, 402 -> 402, throw 'AI gateway error' }
\*   try { JSON.parse(aiResponse) } catch { throw 'Invalid AI response format' }
\*   catch (error) -> status 500
calculate_carbon(status, content) ==
  IF status # 200
    THEN CASE status = 429 -> [status |-> 429, carbon_amount |-> 0,
                               error |-> "Rate limits exceeded, please try again later."]
           [] status = 402 -> [status |-> 402, carbon_amount |-> 0,
                               error |-> "Payment required, please add funds to your Lovable AI workspace."]
           [] OTHER -> [status |-> 500, carbon_amount |-> 0, error |-> "AI gateway error"]
  ELSE IF ~content.json
    THEN [status |-> 500, carbon_amount |-> 0, error |-> "Invalid AI response format"]
  ELSE [status |-> 200, carbon_amount |-> content.carbon_amount, error |-> ""]

\* categories.find(cat => cat.name.includes('Transportation')), the catalog
\* being fetched with .order('name')
GeneralCategory == Car

\* mutant: the form takes the category and a quantity whatever the answer is
calculateAIEmissions_SetsAnyway(f, response) ==
  [f EXCEPT !.selectedCategory = GeneralCategory, !.quantity = "5.00",
            !.toast = IF response.status = 200 THEN "AI calculation complete!"
                      ELSE "AI calculation failed"]

\* ActivityLogger.calculateAIEmissions, given the response of the edge
\* function: functions.invoke reports every status outside 2xx as error
calculateAIEmissions(f, response) ==
  IF f.description = "" THEN [f EXCEPT !.toast = "Description required"]
  ELSE IF response.status # 200 THEN [f EXCEPT !.toast = "AI calculation failed"]
  ELSE IF response.carbon_amount # 0
    THEN [f EXCEPT !.selectedCategory = GeneralCategory,
                   !.quantity = ToFixed2(response.carbon_amount, emission_factor[GeneralCategory]),
                   !.toast = "AI calculation complete!"]
  ELSE [f EXCEPT !.toast = "none"]

\* the toasts that tell the user of an error
ErrorToasts == {"Description required", "AI calculation failed", "Error",
                "Please fill out this field."}

\* <Textarea required>, <Input type="number" required>: the browser does not
\* submit the form while one of them is empty, and shows its own message;
\* the <Select> of the category carries no such attribute
RequiredFieldEmpty(f) == f.description = "" \/ f.quantity = ""

\* if (!selectedCategory || !quantity || !description) return;
MissingField(f) == f.selectedCategory = "" \/ f.quantity = "" \/ f.description = ""

\* row level security of public.carbon_emissions: one policy each FOR SELECT,
\* FOR INSERT and FOR UPDATE, all of them auth.uid() = user_id; a command
\* without a policy is allowed on no row
EmissionPolicyCommands == {"SELECT", "INSERT", "UPDATE"}
EmissionPolicyAllows(command, uid, row) ==
  command \in EmissionPolicyCommands /\ uid = row.user_id

\* mutant: a policy FOR DELETE exists as well
deleteEmission_OwnerPolicy(db, uid, id) ==
  IF uid = db.carbon_emissions[id].user_id THEN DeleteEmission(db, id) ELSE Done(db)

\* DELETE FROM carbon_emissions WHERE id = ... as the API runs it for a
\* signed-in user: the statement sees the rows its policies allow, deletes
\* those and reports no error for the others
deleteEmission(db, uid, id) ==
  IF EmissionPolicyAllows("DELETE", uid, db.carbon_emissions[id])
    THEN DeleteEmission(db, id)
    ELSE Done(db)

\* setSelectedCategory / setQuantity / setDescription
EditForm(field, value) ==
  /\ form[field] # value
  /\ form' = [form EXCEPT ![field] = value]
  /\ last' = Op("editForm", "-", TRUE, FALSE)
  /\ UNCHANGED <<migrated, auth_users, profiles, carbon_emissions, leaderboard, next_id,
                 pending, twice, hist, view, session>>

\* the estimate button, up to the answer of the edge function (the button
\* is disabled while the description is blank)
CalculateAIEmissions(u, status, content) ==
  /\ u \in auth_users
  /\ form.description # ""
  /\ form' = calculateAIEmissions(form, calculate_carbon(status, content))
  /\ last' = Op("calculateAIEmissions", u, calculate_carbon(status, content).status = 200, FALSE)
  /\ UNCHANGED <<migrated, auth_users, profiles, carbon_emissions, leaderboard, next_id,
                 pending, twice, hist, view, session>>

\* the submit button: the browser's check of the required fields, then
\* handleSubmit; after onActivityLogged() the dashboard closes the form
SubmitForm(u) ==
  /\ u \in auth_users
  /\ MissingField(form) \/ next_id \in RecIds
  /\ UNCHANGED <<auth_users, pending, view, session>>
  /\ IF RequiredFieldEmpty(form)
       THEN /\ form' = [form EXCEPT !.toast = "Please fill out this field."]
            /\ last' = Op("submitForm", u, FALSE, FALSE)
            /\ UNCHANGED <<migrated, profiles, carbon_emissions, leaderboard, next_id,
                           twice, hist>>
     ELSE IF MissingField(form)
       THEN /\ form' = [form EXCEPT !.toast = "none"]
            /\ last' = Op("submitForm", u, FALSE, FALSE)
            /\ UNCHANGED <<migrated, profiles, carbon_emissions, leaderboard, next_id,
                           twice, hist>>
     ELSE LET category == form.selectedCategory
              quantity == ParseFloat(form.quantity)
              r == handleSubmit(DB, next_id, u, category, quantity)
              c == carbonAmount(category, quantity)
              p == greenPoints(category, quantity)
              times == IF migrated /\ r.ok /\ u \in DOMAIN profiles THEN 2 ELSE 0
              floored == Floors(BeforeCarbon(u), c, times)
                           \/ Floors(BeforePoints(u), p, times)
          IN /\ Install(r.db)
             /\ form' = IF r.ok THEN [NoForm EXCEPT !.toast = "Activity logged!"]
                        ELSE [form EXCEPT !.toast = "Error"]
             /\ last' = Op("submitForm", u, r.ok, floored)
             /\ hist' = IF r.ok THEN NextHist(u, floored, TRUE) ELSE hist
             /\ next_id' = IF r.ok THEN next_id + 1 ELSE next_id
             /\ twice' = IF times = 2 THEN twice \cup {u} ELSE twice

\* the signed-in user sends a DELETE for one of their rows
DeleteOwnRow(u, id) ==
  /\ u \in auth_users
  /\ id \in DOMAIN carbon_emissions
  /\ carbon_emissions[id].user_id = u
  /\ LET old_row == carbon_emissions[id]
         r == deleteEmission(DB, u, id)
         removed == id \notin DOMAIN r.db.carbon_emissions
         times == IF migrated /\ removed /\ u \in DOMAIN profiles THEN 1 ELSE 0
         floored == Floors(BeforeCarbon(u), -old_row.carbon_amount, times)
                      \/ Floors(BeforePoints(u), -old_row.green_points_earned, times)
     IN /\ Install(r.db)
        /\ last' = Op("deleteOwnRow", u, r.ok, floored)
        /\ hist' = IF removed THEN NextHist(u, floored, FALSE) ELSE hist
  /\ UNCHANGED <<auth_users, next_id, pending, twice, form, view, session>>

\* the user of the browser
FormUser == "u1"

NextClient ==
  \/ SignUp(FormUser)
  \/ \E category \in SelectedCategories : EditForm("selectedCategory", category)
  \/ \E text \in QuantityTexts \cup {""} : EditForm("quantity", text)
  \/ \E text \in Descriptions \cup {""} : EditForm("description", text)
  \/ \E status \in GatewayStatuses, content \in GatewayContents :
       CalculateAIEmissions(FormUser, status, content)
  \/ SubmitForm(FormUser)
  \/ \E id \in RecIds : DeleteOwnRow(FormUser, id)

SpecClient == InitRequests /\ [][NextClient]_vars

\* ------------------------------------------------- the Leaderboard component
\* useEffect(() => { fetchLeaderboard(); }, []): the component fetches once,
\* when it mounts.  It opens no realtime channel and starts no timer, so no
\* later step of it exists.
MountLeaderboard(viewer) ==
  /\ ~view.mounted
  /\ viewer \in auth_users
  /\ view' = [mounted |-> TRUE, viewer |-> viewer, entries |-> fetchLeaderboard(DB, viewer)]
  /\ last' = Op("mountLeaderboard", viewer, TRUE, FALSE)
  /\ UNCHANGED <<migrated, auth_users, profiles, carbon_emissions, leaderboard, next_id,
                 pending, twice, hist, form, session>>

NextRealtime ==
  \/ \E u \in Users : SignUp(u)
  \/ \E u \in Users, quantity \in SubmitQuantities : HandleSubmit(u, Car, quantity)
  \/ \E id \in RecIds, quantity \in Quantities : UpdateRow(id, quantity)
  \/ MountLeaderboard(FormUser)

\* every request that can be made is made eventually, and every callback
\* that is due runs
SpecRealtime == InitRequests /\ [][NextRealtime]_vars /\ WF_vars(NextRealtime)

\* ---------------------------------------------------- the Reports component
\* fetchReportsData, the category breakdown.  JavaScript numbers: a quotient
\* is finite (kept here as the exact fraction num / den), NaN (0 / 0) or an
\* infinity (x / 0).
Divide(x, y) ==
  IF y # 0 THEN [kind |-> "finite", num |-> x, den |-> y]
  ELSE IF x = 0 THEN [kind |-> "NaN", num |-> 0, den |-> 0]
  ELSE IF x > 0 THEN [kind |-> "Infinity", num |-> 0, den |-> 0]
  ELSE [kind |-> "-Infinity", num |-> 0, den |-> 0]

\* q * n for a quotient q
Times(q, n) == IF q.kind = "finite" THEN [q EXCEPT !.num = @ * n] ELSE q

\* .eq('user_id', user?.id), joined with the name of the category (every row
\* of this model has a category of the catalog, so 'Unknown' does not occur)
CategoryNames(emissions, u) == {emissions[i].category : i \in RowsOf(emissions, u)}

\* mutant: categoryMap.set(categoryName, emission.carbon_amount), the amount
\* of one row of the category instead of their sum
CategoryTotal_OneRow(emissions, u, name) ==
  LET i == CHOOSE i \in RowsOf(emissions, u) : emissions[i].category = name
  IN emissions[i].carbon_amount

\* categoryMap.set(categoryName, (categoryMap.get(categoryName) || 0) + emission.carbon_amount)
CategoryTotal(emissions, u, name) ==
  SumOver(emissions, {i \in RowsOf(emissions, u) : emissions[i].category = name}, "carbon")

\* totalEmissions += emission.carbon_amount
TotalEmissions(emissions, u) == SumOver(emissions, RowsOf(emissions, u), "carbon")

\* categoryArray (before the sort, which changes no entry):
\*   percentage: (total_emissions / totalEmissions) * 100
CategoryBreakdown(emissions, u) ==
  [name \in CategoryNames(emissions, u) |->
     [total_emissions |-> CategoryTotal(emissions, u, name),
      percentage |-> Times(Divide(CategoryTotal(emissions, u, name),
                                  TotalEmissions(emissions, u)), 100)]]

\* ------------------------------------------- AuthProvider, the session handlers
\* handleSession is called by the auth state listener and by the initial
\* getSession(); each call awaits ensureProfileExists, whose three requests
\* (select the profile, select the emissions, insert the profile) interleave
\* with those of the other call.  The form is not shown before a handler has
\* finished (loading), so the user's records are those logged earlier.

\* the user who opens the application: an account that has no profiles row
SessionUser == "u1"

\* where a handler's ensureProfileExists ends
SessionEnds == {"found", "inserted", "conflict"}

\* mutant: profiles.user_id carries no UNIQUE constraint, the insert always
\* stores its row
insertProfile_NoUnique(db, u, carbon, points) ==
  Done([db EXCEPT !.profiles =
          Put(db.profiles, u, [total_carbon_footprint |-> carbon,
                               total_green_points |-> points,
                               show_on_leaderboard |-> TRUE])])

\* supabase.from('profiles').insert({...}): user_id is UNIQUE, so the insert
\* fails when the user has a row
insertProfile(db, u, carbon, points) ==
  IF u \in DOMAIN db.profiles THEN Failed(db)
  ELSE Done([db EXCEPT !.profiles =
               Put(db.profiles, u, [total_carbon_footprint |-> carbon,
                                    total_green_points |-> points,
                                    show_on_leaderboard |-> TRUE])])

\* the listener fires, or getSession() resolves: handleSession(sess) starts
CallHandleSession(h) ==
  /\ session[h].pc = "idle"
  /\ SessionUser \in auth_users
  /\ session' = [session EXCEPT ![h].pc = "select"]
  /\ last' = Op("handleSession", SessionUser, TRUE, FALSE)
  /\ UNCHANGED <<migrated, auth_users, profiles, carbon_emissions, leaderboard, next_id,
                 pending, twice, hist, form, view>>

\* select('id').eq('user_id', u.id).maybeSingle(); if (!existing) ...
SelectExisting(h) ==
  /\ session[h].pc = "select"
  /\ session' = [session EXCEPT ![h].pc = IF SessionUser \in DOMAIN profiles
                                            THEN "found" ELSE "sum"]
  /\ last' = Op("selectExisting", SessionUser, TRUE, FALSE)
  /\ UNCHANGED <<migrated, auth_users, profiles, carbon_emissions, leaderboard, next_id,
                 pending, twice, hist, form, view>>

\* select('carbon_amount, green_points_earned').eq('user_id', u.id), reduced
\* to totals.carbon and totals.points
SumEmissions(h) ==
  /\ session[h].pc = "sum"
  /\ session' = [session EXCEPT ![h] = [pc |-> "insert",
                                        carbon |-> SumCarbon(carbon_emissions, SessionUser),
                                        points |-> SumPoints(carbon_emissions, SessionUser)]]
  /\ last' = Op("sumEmissions", SessionUser, TRUE, FALSE)
  /\ UNCHANGED <<migrated, auth_users, profiles, carbon_emissions, leaderboard, next_id,
                 pending, twice, hist, form, view>>

\* await supabase.from('profiles').insert({...}): the error of the answer
\* is not looked at
InsertProfile(h) ==
  /\ session[h].pc = "insert"
  /\ LET r == insertProfile(DB, SessionUser, session[h].carbon, session[h].points)
     IN /\ Install(r.db)
        /\ session' = [session EXCEPT ![h] = [pc |-> IF r.ok THEN "inserted" ELSE "conflict",
                                              carbon |-> 0, points |-> 0]]
        /\ last' = Op("insertProfile", SessionUser, r.ok, FALSE)
        /\ hist' = IF ~r.ok THEN hist
                   ELSE [hist EXCEPT ![SessionUser] =
                           IF RowsOf(carbon_emissions, SessionUser) = {} THEN "pure" ELSE "mixed"]
  /\ UNCHANGED <<auth_users, next_id, pending, twice, form, view>>

\* an activity logged before the application is opened
SubmitBeforeLoad(u, category, quantity) ==
  /\ \A h \in Handlers : session[h].pc = "idle"
  /\ HandleSubmit(u, category, quantity)

NextSession ==
  \/ \E category \in SelectedCategories, quantity \in Quantities :
       SubmitBeforeLoad(SessionUser, category, quantity)
  \/ Migrate
  \/ \E h \in Handlers : CallHandleSession(h)
  \/ \E h \in Handlers : SelectExisting(h)
  \/ \E h \in Handlers : SumEmissions(h)
  \/ \E h \in Handlers : InsertProfile(h)

SpecSession == Init /\ [][NextSession]_vars

\* ===================================================================== claims
\* max(0, x), written out: the claims do not read the model's GREATEST0
Max0(x) == IF x < 0 THEN 0 ELSE x

TotalCarbon(u) == profiles[u].total_carbon_footprint
TotalPoints(u) == profiles[u].total_green_points

\* signed deltas the row statements of this model can produce, and zero
CarbonDeltas == {-4250, -411, 0, 850, 2055}
PointsDeltas == {-42, 0, 8}

\* a row mutation of the last step went through update_user_totals
Applied(op) == last.op = op /\ last.ok /\ migrated /\ last.user_id \in DOMAIN profiles

C3_TotalsNonNegative ==
  \A u \in DOMAIN profiles : TotalCarbon(u) >= 0 /\ TotalPoints(u) >= 0

DeletedLastRow ==
  /\ Applied("delete")
  /\ RowsOf(carbon_emissions, last.user_id) = {}

UpdatedId == CHOOSE i \in DOMAIN carbon_emissions : carbon_emissions'[i] # carbon_emissions[i]

Excess(u) == TotalCarbon(u) - SumCarbon(carbon_emissions, u)

OneRowMirrors(lb, profs, u) ==
  /\ Cardinality(LeaderboardRows(lb, u)) = 1
  /\ \A r \in LeaderboardRows(lb, u) :
       /\ r.total_footprint = profs[u].total_carbon_footprint
       /\ r.total_points = profs[u].total_green_points

C10_EveryProfileHasLeaderboardRow ==
  migrated => \A u \in DOMAIN profiles : OneRowMirrors(leaderboard, profiles, u)

\* C11: applied (with all migrations in place) for a user of auth.users that
\* has no profiles row, update_user_totals succeeds and leaves a profiles row
\* for the user whose totals are (max(0, carbon_delta), max(0, points_delta)).
C11_LazyProfileCreation ==
  migrated =>
    \A u \in auth_users \ DOMAIN profiles, cd \in CarbonDeltas, pd \in PointsDeltas :
      LET r == update_user_totals(DB, u, cd, pd)
      IN /\ r.ok
         /\ u \in DOMAIN r.db.profiles
         /\ r.db.profiles[u].total_carbon_footprint = Max0(cd)
         /\ r.db.profiles[u].total_green_points = Max0(pd)

\* the requests that write carbon_emissions or are sent by handleSubmit
RecordRequests == {"insert", "rpc", "update", "delete"}

C14_OtherUsersUntouched ==
  [][last'.op \in RecordRequests =>
       \A b \in Users \ {last'.user_id} :
         /\ (b \in DOMAIN profiles') = (b \in DOMAIN profiles)
         /\ b \in DOMAIN profiles => profiles'[b] = profiles[b]
         /\ LeaderboardRows(leaderboard', b) = LeaderboardRows(leaderboard, b)]_vars

\* a row of A has just been updated or deleted while B, who has a positive
\* footprint and a leaderboard row, is between the two requests of a submit
C14_Witness ==
  /\ last.op \in {"update", "delete"}
  /\ last.ok
  /\ \E b \in (DOMAIN profiles) \ {last.user_id} :
       /\ pending[b].open
       /\ TotalCarbon(b) > 0
       /\ LeaderboardRows(leaderboard, b) # {}

C16_LeaderboardHidesOptedOut ==
  \A viewer \in auth_users :
    LET entries == fetchLeaderboard(DB, viewer)
    IN \A i \in DOMAIN entries : profiles[entries[i].user_id].show_on_leaderboard

\* C17: the entries fetchLeaderboard returns are in non-decreasing order of
\* total_footprint: each entry's footprint is at most that of the next one.
C17_LeaderboardNonDecreasing ==
  \A viewer \in auth_users :
    LET entries == fetchLeaderboard(DB, viewer)
    IN \A i \in 1..(Len(entries) - 1) :
         entries[i].total_footprint <= entries[i + 1].total_footprint

\* some viewer gets two entries with different footprints, u2 ahead of u1
C17_Witness ==
  \E viewer \in auth_users :
    LET entries == fetchLeaderboard(DB, viewer)
    IN /\ Len(entries) = 2
       /\ entries[1].user_id = "u2"
       /\ entries[1].total_footprint < entries[2].total_footprint
       /\ entries[1].rank = 1

\* C18: logging quantity 5 of Recycling (emission_factor -0.85) for a user
\* with zero totals stores carbon_amount -4.25 and green_points_earned 43,
\* and leaves total_carbon_footprint 0 and total_green_points 43.
C18_RecyclingFiveScenario ==
  [][(/\ last'.op = "handleSubmit" /\ last'.ok /\ migrated
      /\ last'.user_id \in DOMAIN profiles
      /\ TotalCarbon(last'.user_id) = 0 /\ TotalPoints(last'.user_id) = 0
      /\ carbon_emissions'[next_id].category = Recycling
      /\ carbon_emissions'[next_id].quantity = 5) =>
       LET u == last'.user_id
           row == carbon_emissions'[next_id]
       IN /\ emission_factor[Recycling] = -850
          /\ row.carbon_amount = -4250
          /\ row.green_points_earned = 43
          /\ profiles'[u].total_carbon_footprint = 0
          /\ profiles'[u].total_green_points = 43]_vars

\* quantities a user can type into the form (the field has no minimum)
FormQuantities == (-5)..12

\* recycling/carbon-negative categories: those whose emission_factor is negative
CarbonNegative(category) == emission_factor[category] < 0

\* points >= 0; none outside the carbon-negative categories; within them the
\* integer nearest to ten times the magnitude of carbon_amount in kg, that
\* is at most half a point away from it (100 thousandths of a kg per point)
PointsRule(row) ==
  /\ row.green_points_earned >= 0
  /\ IF CarbonNegative(row.category)
       THEN LET magnitude == IF row.carbon_amount < 0 THEN -row.carbon_amount
                             ELSE row.carbon_amount
                off == magnitude - 100 * row.green_points_earned
            IN -50 <= off /\ off <= 50
       ELSE row.green_points_earned = 0

C20_UnknownCategoryRejected ==
  [][(\E u \in Users, quantity \in SubmitQuantities :
        SubmitInsert(u, UnknownCategory, quantity)) =>
       /\ ~last'.ok
       /\ carbon_emissions' = carbon_emissions
       /\ profiles' = profiles
       /\ leaderboard' = leaderboard
       /\ ~pending'[last'.user_id].open]_vars

\* a submit has just been refused for a user who has a footprint and a
\* leaderboard row
C20_Witness ==
  /\ last.op = "insert" /\ ~last.ok
  /\ last.user_id \in DOMAIN profiles
  /\ TotalCarbon(last.user_id) > 0
  /\ LeaderboardRows(leaderboard, last.user_id) # {}
  /\ carbon_emissions # << >>

\* the records, the profile totals and the leaderboard rows stay as they are
StoreUnchanged ==
  /\ carbon_emissions' = carbon_emissions
  /\ profiles' = profiles
  /\ leaderboard' = leaderboard

\* C21: a submit of the form with the category, the quantity or the
\* description missing is rejected with a validation error shown to the
\* user, and stores no record and changes no totals.
C21_MissingFieldRejected ==
  [][(SubmitForm(FormUser) /\ MissingField(form))
       => (form'.toast \in ErrorToasts /\ StoreUnchanged)]_vars

\* C22: when the estimator fails (the gateway answers 429, 402 or another
\* error status, or its message is no JSON), the user is shown an error, no
\* record, profile total or leaderboard row changes, and the category and the
\* quantity selected in the form stay as they were.
C22_EstimatorFailureChangesNothing ==
  [][(\E status \in GatewayStatuses, content \in GatewayContents :
        /\ CalculateAIEmissions(FormUser, status, content)
        /\ status # 200 \/ ~content.json)
       => /\ form'.toast \in ErrorToasts
          /\ StoreUnchanged
          /\ form'.selectedCategory = form.selectedCategory
          /\ form'.quantity = form.quantity]_vars

\* an estimate has just failed for a user who has a record, totals above
\* zero and a form with the recycling category and a quantity typed in
C22_Witness ==
  /\ last.op = "calculateAIEmissions"
  /\ ~last.ok
  /\ form.toast = "AI calculation failed"
  /\ form.selectedCategory = Recycling
  /\ form.quantity = "5"
  /\ RowsOf(carbon_emissions, FormUser) # {}
  /\ FormUser \in DOMAIN profiles
  /\ TotalCarbon(FormUser) > 0

\* C23: the owner of a record can delete it: a DELETE sent by the owning
\* user is allowed by row level security, removes the row, and the delete
\* trigger applies the negated amounts of the row to the owner's totals.
C23_OwnerCanDelete ==
  [][\A id \in RecIds :
       DeleteOwnRow(FormUser, id)
         => /\ id \notin DOMAIN carbon_emissions'
            /\ FormUser \in DOMAIN profiles
                 => /\ TotalCarbon(FormUser)' =
                         Max0(TotalCarbon(FormUser) - carbon_emissions[id].carbon_amount)
                    /\ TotalPoints(FormUser)' =
                         Max0(TotalPoints(FormUser) - carbon_emissions[id].green_points_earned)]_vars

\* a mounted Leaderboard lists a user whose totals are no longer the displayed ones
TotalsChangedSinceFetch ==
  /\ view.mounted
  /\ \E i \in 1..Len(view.entries) :
       \/ view.entries[i].total_footprint # TotalCarbon(view.entries[i].user_id)
       \/ view.entries[i].total_points # TotalPoints(view.entries[i].user_id)

\* C24: the leaderboard is real-time: after a change to the totals of a
\* listed user, a Leaderboard component that is already mounted eventually
\* displays what fetchLeaderboard returns now (the new totals, in the new
\* order), without being mounted again.
C24_ViewEventuallyCurrent ==
  [](TotalsChangedSinceFetch => <>(view.entries = fetchLeaderboard(DB, view.viewer)))

\* eleven more accounts, one more than the leaderboard lists
Crowd == {"c01", "c02", "c03", "c04", "c05", "c06", "c07", "c08", "c09", "c10", "c11"}

\* the database after the accounts of S have signed up as well
RECURSIVE SignedUp(_, _)
SignedUp(db, S) ==
  IF S = {} THEN db
  ELSE LET u == CHOOSE x \in S : TRUE
       IN SignedUp(handle_new_user([db EXCEPT !.auth_users = @ \cup {u}], u), S \ {u})

\* C25: the rank of every entry of the leaderboard is its position in the
\* list, counted from 1: the ranks are exactly 1..n with n at most the limit
\* of 10, and they do not depend on what the leaderboard table stores.
\* Checked on the database as it is and with the accounts of Crowd added.
C25_RankIsPosition ==
  \A viewer \in auth_users : \A db \in {DB, SignedUp(DB, Crowd)} :
    LET entries == fetchLeaderboard(db, viewer)
        n == Len(entries)
    IN /\ n <= LeaderboardLimit
       /\ n = LeaderboardLimit \/ n = Cardinality(VisibleProfiles(db, viewer))
       /\ \A i \in 1..n : entries[i].rank = i
       /\ {entries[i].rank : i \in 1..n} = 1..n
       /\ fetchLeaderboard([db EXCEPT !.leaderboard = {}], viewer) = entries

\* two listed users with different footprints, the lower one first; with the
\* accounts of Crowd more profiles are visible than the list may hold
C25_Witness ==
  /\ DOMAIN profiles = Users
  /\ Len(fetchLeaderboard(DB, "u1")) = 2
  /\ fetchLeaderboard(DB, "u1")[1].total_footprint < fetchLeaderboard(DB, "u1")[2].total_footprint
  /\ fetchLeaderboard(DB, "u1")[2].rank = 2
  /\ leaderboard # {}
  /\ Len(fetchLeaderboard(SignedUp(DB, Crowd), "u1")) = LeaderboardLimit
  /\ Cardinality(VisibleProfiles(SignedUp(DB, Crowd), "u1")) > LeaderboardLimit

\* the sum of f[k].total_emissions (field "total") or of the numerators of
\* f[k].percentage (field "percentage") over the categories of S
RECURSIVE SumBreakdown(_, _, _)
SumBreakdown(f, S, field) ==
  IF S = {} THEN 0
  ELSE LET k == CHOOSE x \in S : TRUE
       IN (IF field = "total" THEN f[k].total_emissions ELSE f[k].percentage.num)
          + SumBreakdown(f, S \ {k}, field)

\* C26: in the report of a user whose records' carbon_amount add up to zero
\* (records that cancel included), the percentage of every category is a
\* finite number: the division by the grand total is guarded.
C26_ZeroTotalGuarded ==
  \A u \in auth_users :
    TotalEmissions(carbon_emissions, u) = 0
      => \A name \in CategoryNames(carbon_emissions, u) :
           CategoryBreakdown(carbon_emissions, u)[name].percentage.kind = "finite"

\* C27: in the report of a user whose grand total is not zero, the totals of
\* the categories add up to the grand total and the percentages add up to
\* 100 (as exact fractions of the grand total), negative amounts included.
C27_BreakdownAddsUp ==
  \A u \in auth_users :
    LET breakdown == CategoryBreakdown(carbon_emissions, u)
        total == TotalEmissions(carbon_emissions, u)
    IN total # 0
         => /\ SumBreakdown(breakdown, DOMAIN breakdown, "total") = total
            /\ \A name \in DOMAIN breakdown :
                 /\ breakdown[name].percentage.kind = "finite"
                 /\ breakdown[name].percentage.den = total
            /\ SumBreakdown(breakdown, DOMAIN breakdown, "percentage") = 100 * total

\* a report over two categories, one with a negative total, whose grand
\* total is negative: one percentage is below 0 and one above 100
C27_Witness ==
  LET breakdown == CategoryBreakdown(carbon_emissions, FormUser)
  IN /\ DOMAIN breakdown = {Car, Recycling}
     /\ breakdown[Car].total_emissions > 0
     /\ breakdown[Recycling].total_emissions < 0
     /\ TotalEmissions(carbon_emissions, FormUser) < 0
     /\ breakdown[Car].percentage.kind = "finite"

Inserted == {h \in Handlers : session[h].pc = "inserted"}

\* C30: when both session handlers run ensureProfileExists for a user who
\* has no profile, at most one profile row is created, and once both have
\* ended the user has a profile whose totals are the sums over the user's
\* records.
C30_OneProfileFromTwoHandlers ==
  /\ Cardinality(Inserted) <= 1
  /\ (Inserted # {} /\ \A h \in Handlers : session[h].pc \in SessionEnds)
       => /\ SessionUser \in DOMAIN profiles
          /\ TotalCarbon(SessionUser) = SumCarbon(carbon_emissions, SessionUser)
          /\ TotalPoints(SessionUser) = SumPoints(carbon_emissions, SessionUser)

\* both handlers found no profile and both sent their insert: one stored the
\* row, the other ran into the unique constraint; the user has records
C30_Witness ==
  /\ {session[h].pc : h \in Handlers} = {"inserted", "conflict"}
  /\ RowsOf(carbon_emissions, SessionUser) # {}
  /\ TotalPoints(SessionUser) > 0

====
